---- MODULE Spec2Model ----
(***************************************************************************)
(* A model of the clipboard spell checker of src/main.go: the dictionary   *)
(* trie, the frequency table, the candidate generator, the scorer and the  *)
(* text reconstruction of correctSpelling.                                 *)
(*                                                                         *)
(* A Go string is a sequence of bytes (integers 0..255).  Runes are code   *)
(* points (integers).  The functions of package strings and unicode that   *)
(* the program calls are modelled by what they compute on those bytes.     *)
(***************************************************************************)
EXTENDS Integers, Sequences, FiniteSets, TLC

(***************************************************************************)
(* Characters.  Str turns a TLA+ string of printable ASCII characters into *)
(* the Go string (byte sequence) it denotes.                               *)
(***************************************************************************)
Printable1 == " !"
Printable2 == "#$%&'()*+,-./0123456789:;<=>?@ABCDEFGHIJKLMNOPQRSTUVWXYZ["
Printable3 == "]^_"
Printable4 == "abcdefghijklmnopqrstuvwxyz{|}~"

\* The byte value of a one-character string (the double quote, the
\* backslash and the backquote are not used).
Code(c) ==
  IF \E i \in 1..Len(Printable1) : SubSeq(Printable1, i, i) = c
    THEN 31 + (CHOOSE i \in 1..Len(Printable1) : SubSeq(Printable1, i, i) = c)
  ELSE IF \E i \in 1..Len(Printable2) : SubSeq(Printable2, i, i) = c
    THEN 34 + (CHOOSE i \in 1..Len(Printable2) : SubSeq(Printable2, i, i) = c)
  ELSE IF \E i \in 1..Len(Printable3) : SubSeq(Printable3, i, i) = c
    THEN 92 + (CHOOSE i \in 1..Len(Printable3) : SubSeq(Printable3, i, i) = c)
  ELSE 96 + (CHOOSE i \in 1..Len(Printable4) : SubSeq(Printable4, i, i) = c)

Str(t) == [i \in 1..Len(t) |-> Code(SubSeq(t, i, i))]

Apostrophe == Code("'")

(***************************************************************************)
(* UTF-8 (package unicode/utf8).                                           *)
(***************************************************************************)
RuneError == 65533

IsCont(b) == b >= 128 /\ b <= 191

\* utf8.DecodeRuneInString on the suffix of s that starts at (1-based) i:
\* the rune and its width; an invalid or truncated encoding decodes as
\* (RuneError, 1).
DecodeRune(s, i) ==
  LET n  == Len(s)
      b0 == s[i]
      b1 == IF i + 1 <= n THEN s[i + 1] ELSE 0
      b2 == IF i + 2 <= n THEN s[i + 2] ELSE 0
      b3 == IF i + 3 <= n THEN s[i + 3] ELSE 0
      bad == [r |-> RuneError, w |-> 1]
  IN  IF b0 < 128 THEN [r |-> b0, w |-> 1]
      ELSE IF b0 >= 194 /\ b0 <= 223
        THEN IF i + 1 <= n /\ IsCont(b1)
               THEN [r |-> (b0 - 192) * 64 + (b1 - 128), w |-> 2]
               ELSE bad
      ELSE IF b0 >= 224 /\ b0 <= 239
        THEN IF /\ i + 2 <= n
                /\ b1 >= (IF b0 = 224 THEN 160 ELSE 128)
                /\ b1 <= (IF b0 = 237 THEN 159 ELSE 191)
                /\ IsCont(b2)
               THEN [r |-> (b0 - 224) * 4096 + (b1 - 128) * 64 + (b2 - 128),
                     w |-> 3]
               ELSE bad
      ELSE IF b0 >= 240 /\ b0 <= 244
        THEN IF /\ i + 3 <= n
                /\ b1 >= (IF b0 = 240 THEN 144 ELSE 128)
                /\ b1 <= (IF b0 = 244 THEN 143 ELSE 191)
                /\ IsCont(b2) /\ IsCont(b3)
               THEN [r |-> (b0 - 240) * 262144 + (b1 - 128) * 4096
                             + (b2 - 128) * 64 + (b3 - 128),
                     w |-> 4]
               ELSE bad
      ELSE bad

\* `for i, r := range s`: the runes of s with their 0-based byte offsets
\* and widths, from (1-based) position i on.
RECURSIVE RangeFrom(_, _)
RangeFrom(s, i) ==
  IF i > Len(s) THEN <<>>
  ELSE LET d == DecodeRune(s, i)
       IN  <<[pos |-> i - 1, r |-> d.r, w |-> d.w]>> \o RangeFrom(s, i + d.w)

Range(s) == RangeFrom(s, 1)

\* The runes a `range` loop over s yields (an ASCII string is its own
\* sequence of runes).
Runes(s) ==
  IF \A i \in 1..Len(s) : s[i] >= 0 /\ s[i] < 128 THEN s
  ELSE LET rs == Range(s) IN [i \in 1..Len(rs) |-> rs[i].r]

\* utf8.EncodeRune / string(rune): the UTF-8 bytes of a code point
\* (surrogates and out-of-range values encode as RuneError).
EncodeRune(r) ==
  IF r < 0 \/ r > 1114111 \/ (r >= 55296 /\ r <= 57343)
    THEN <<239, 191, 189>>
  ELSE IF r < 128 THEN <<r>>
  ELSE IF r < 2048 THEN <<192 + (r \div 64), 128 + (r % 64)>>
  ELSE IF r < 65536
    THEN <<224 + (r \div 4096), 128 + ((r \div 64) % 64), 128 + (r % 64)>>
  ELSE <<240 + (r \div 262144), 128 + ((r \div 4096) % 64),
         128 + ((r \div 64) % 64), 128 + (r % 64)>>

RECURSIVE EncodeRunes(_)
EncodeRunes(rs) ==
  IF rs = <<>> THEN <<>> ELSE EncodeRune(Head(rs)) \o EncodeRunes(Tail(rs))

(***************************************************************************)
(* Package unicode, on the Latin-1 range and U+FFFD (the runes that the    *)
(* byte alphabets of this model can produce).                              *)
(***************************************************************************)
IsSpace(r) == r \in {9, 10, 11, 12, 13, 32, 133, 160}

IsPunct(r) ==
  r \in (33..35) \cup (37..42) \cup (44..47) \cup {58, 59, 63, 64}
        \cup (91..93) \cup {95, 123, 125}
        \cup {161, 167, 171, 182, 183, 187, 191}

IsLetter(r) ==
  r \in (65..90) \cup (97..122) \cup {170, 181, 186}
        \cup (192..214) \cup (216..246) \cup (248..255)

IsDigit(r) == r \in 48..57

IsNumber(r) == r \in (48..57) \cup {178, 179, 185, 188, 189, 190}

IsUpper(r) == r \in (65..90) \cup (192..214) \cup (216..222)

RuneToLower(r) == IF IsUpper(r) THEN r + 32 ELSE r

RuneToUpper(r) ==
  IF r \in (97..122) \cup (224..246) \cup (248..254) THEN r - 32
  ELSE IF r = 181 THEN 924
  ELSE IF r = 255 THEN 376
  ELSE r

(***************************************************************************)
(* Package strings.                                                        *)
(***************************************************************************)
\* strings.Map for a mapping that never drops a rune: every decoded rune
\* (an invalid byte decodes as RuneError) is mapped and re-encoded.
MapToLower(s) ==
  LET rs == Runes(s) IN EncodeRunes([i \in 1..Len(rs) |-> RuneToLower(rs[i])])

MapToUpper(s) ==
  LET rs == Runes(s) IN EncodeRunes([i \in 1..Len(rs) |-> RuneToUpper(rs[i])])

IsASCII(s) == \A i \in 1..Len(s) : s[i] < 128

\* strings.ToLower: bytewise on ASCII, strings.Map(unicode.ToLower) otherwise.
ToLower(s) ==
  IF IsASCII(s)
    THEN [i \in 1..Len(s) |-> IF s[i] \in 65..90 THEN s[i] + 32 ELSE s[i]]
    ELSE MapToLower(s)

\* strings.ToUpper.
ToUpper(s) ==
  IF IsASCII(s)
    THEN [i \in 1..Len(s) |-> IF s[i] \in 97..122 THEN s[i] - 32 ELSE s[i]]
    ELSE MapToUpper(s)

\* A run-time panic (index or slice bounds out of range) is modelled by a
\* poisoned string: the byte -1 marks a value that Go never produced.
Panic == <<-1>>

Poisoned(s) == \E i \in 1..Len(s) : s[i] < 0

\* s[lo:hi] with Go's 0-based bounds; out-of-range bounds panic.
Slice(s, lo, hi) ==
  IF 0 <= lo /\ lo <= hi /\ hi <= Len(s) THEN SubSeq(s, lo + 1, hi) ELSE Panic

\* s[i] with Go's 0-based index; an out-of-range index panics.
At(s, i) == IF 0 <= i /\ i < Len(s) THEN s[i + 1] ELSE -1

\* string(b) for a byte or rune value b: the UTF-8 encoding of code point b.
CharString(b) == IF b < 0 THEN Panic ELSE EncodeRune(b)

\* strings.TrimSpace.
RECURSIVE TrimLeft(_)
TrimLeft(s) ==
  IF s = <<>> THEN s
  ELSE LET d == DecodeRune(s, 1)
       IN  IF IsSpace(d.r) THEN TrimLeft(Slice(s, d.w, Len(s))) ELSE s

RECURSIVE TrimRightRunes(_)
TrimRightRunes(rs) ==
  IF rs = <<>> THEN 0
  ELSE LET last == rs[Len(rs)]
       IN  IF IsSpace(last.r)
             THEN TrimRightRunes(SubSeq(rs, 1, Len(rs) - 1))
             ELSE last.pos + last.w

TrimSpace(s) == LET t == TrimLeft(s) IN Slice(t, 0, TrimRightRunes(Range(t)))

\* strings.Index(s, sub): the first 0-based offset of sub in s, or -1.
Index(s, sub) ==
  LET hits == {i \in 0..(Len(s) - Len(sub)) :
                 Slice(s, i, i + Len(sub)) = sub}
  IN  IF hits = {} THEN -1
      ELSE CHOOSE i \in hits : \A j \in hits : i <= j

(***************************************************************************)
(* The trie.  A node is identified by the path of runes that leads to it   *)
(* from the root; node.children[ch] of the node at path p is the node at   *)
(* path p \o <<ch>>, present when ch is a key of the children map.         *)
(***************************************************************************)
newTrieNode == [children |-> {}, isEnd |-> FALSE]

newTrie == [root |-> <<>>, nodes |-> (<<>> :> newTrieNode)]

RECURSIVE insertFrom(_, _, _)
insertFrom(nodes, node, rs) ==
  IF rs = <<>> THEN [nodes EXCEPT ![node].isEnd = TRUE]
  ELSE LET ch    == Head(rs)
           child == Append(node, ch)
           grown == IF ch \in nodes[node].children
                      THEN nodes
                      ELSE (child :> newTrieNode)
                             @@ [nodes EXCEPT ![node].children = @ \cup {ch}]
       IN  insertFrom(grown, child, Tail(rs))

\* Trie.insert.
insert(t, word) == [t EXCEPT !.nodes = insertFrom(t.nodes, t.root, Runes(word))]

\* The loop of Trie.search from byte offset i (1-based) of word on: it
\* decodes one rune at a time and stops at the first missing child.
RECURSIVE searchFrom(_, _, _, _)
searchFrom(nodes, node, word, i) ==
  IF i > Len(word) THEN nodes[node].isEnd
  ELSE LET d == DecodeRune(word, i)
       IN  IF d.r \notin nodes[node].children THEN FALSE
           ELSE searchFrom(nodes, Append(node, d.r), word, i + d.w)

\* Trie.search.
search(t, word) == searchFrom(t.nodes, t.root, word, 1)

(***************************************************************************)
(* Program constants.                                                      *)
(***************************************************************************)
MAX_CANDIDATES == 10

(***************************************************************************)
(* State.                                                                  *)
(***************************************************************************)
VARIABLES
  dictionary,     \* var dictionary *Trie
  WordFrequency,  \* var WordFrequency map[string]int
  wordCount,      \* loadDictionary's count of the words read so far
  inserted,       \* history: the arguments of all Trie.insert calls so far
  loaded,         \* loadDictionary has returned: the dictionary is built
  clipboard,      \* the text on the clipboard
  run,            \* history: what the last correctSpelling call did
  inFlight,       \* per trigger: the checkSpelling call that is under way
  sortBuild,      \* the sort.Slice of the toolchain the program was built with
  clip            \* the getClipboardText / setClipboardText call under way

vars == <<dictionary, WordFrequency, wordCount, inserted, loaded, clipboard,
          run, inFlight, sortBuild, clip>>

(***************************************************************************)
(* Scoring.                                                                *)
(***************************************************************************)
abs(n) == IF n < 0 THEN -n ELSE n

\* The commonWords map literal of getWordScore.
commonWords == {Str(w) : w \in {
  "the", "is", "a", "an", "and", "are", "as", "at", "be", "but",
  "by", "for", "if", "in", "into", "it", "no", "not", "of", "on",
  "or", "such", "that", "their", "then", "there", "these", "they", "this",
  "to", "was", "will", "with", "he", "she", "some", "test", "have", "has",
  "had", "do", "does", "did", "can", "could", "would", "should", "may",
  "might", "sentence", "typo", "check", "spell", "checker"}}

\* WordFrequency[word]: a missing key reads as 0.
Frequency(word) ==
  IF word \in DOMAIN WordFrequency THEN WordFrequency[word] ELSE 0

getWordScore(word, originalLen) ==
  LET base     == IF Frequency(word) = 0 THEN 1 ELSE Frequency(word)
      lenDiff  == abs(Len(word) - originalLen)
      adjusted == IF lenDiff = 0 THEN base + 100 ELSE base - lenDiff * 10
      shorter  == adjusted - Len(word)
  IN  IF word \in commonWords THEN shorter + 200 ELSE shorter

containsWord(candidates, word) ==
  \E k \in 1..Len(candidates) : candidates[k].word = word

(***************************************************************************)
(* sort.Slice, which Go does not promise to be stable.  On a slice of at   *)
(* most 12 elements the library does one of two things, depending on the   *)
(* toolchain the program is built with (the repository names none):        *)
(*   "pdqsort"   (Go 1.19 and later) insertion sort: an element moves left *)
(*               while less(it, its left neighbour) holds;                 *)
(*   "quickSort" (before Go 1.19) one pass that swaps the elements i and   *)
(*               i-6 when less(i, i-6), then the same insertion sort.      *)
(* No slice of more than 12 elements is sorted for the inputs below.       *)
(***************************************************************************)
SortBuilds == {"pdqsort", "quickSort"}

\* A comparator that forgets the distance: the higher score first.
lessByScore(a, b) == a.score > b.score

\* The comparator of the sort in findClosestMatch.
lessClosest(a, b) ==
  IF a.distance # b.distance THEN a.distance < b.distance
  ELSE a.score > b.score

\* The comparator of the sort in findCandidatesWithDistance.
lessScore(a, b) == a.score > b.score

Less(a, b, byDistance) ==
  IF byDistance THEN lessClosest(a, b) ELSE lessScore(a, b)

RECURSIVE InsertSorted(_, _, _)
InsertSorted(sorted, x, byDistance) ==
  IF sorted # <<>> /\ Less(x, sorted[Len(sorted)], byDistance)
    THEN Append(InsertSorted(SubSeq(sorted, 1, Len(sorted) - 1), x,
                             byDistance),
                sorted[Len(sorted)])
    ELSE Append(sorted, x)

RECURSIVE SortSliceFrom(_, _, _)
SortSliceFrom(sorted, rest, byDistance) ==
  IF rest = <<>> THEN sorted
  ELSE SortSliceFrom(InsertSorted(sorted, Head(rest), byDistance),
                     Tail(rest), byDistance)

\* `for i := a + 6; i < b; i++ { if less(i, i-6) { swap(i, i-6) } }` on a
\* slice of at most 12 elements: the pairs are disjoint.
gapPass(s, byDistance) ==
  [k \in 1..Len(s) |->
     IF k + 6 <= Len(s) /\ Less(s[k + 6], s[k], byDistance) THEN s[k + 6]
     ELSE IF k > 6 /\ Less(s[k], s[k - 6], byDistance) THEN s[k - 6]
     ELSE s[k]]

SortSlice(s, byDistance) ==
  SortSliceFrom(<<>>, IF sortBuild = "quickSort" THEN gapPass(s, byDistance)
                      ELSE s, byDistance)

(***************************************************************************)
(* Candidate generation.                                                   *)
(***************************************************************************)
Candidate(word, distance, score) ==
  [word |-> word, distance |-> distance, score |-> score]

\* The letters of `for c := 'a'; c <= 'z'; c += step`.
Letters(step) == [k \in 1..((25 \div step) + 1) |-> 97 + (k - 1) * step]

\* word[:i] + word[i+1:] for i = 0 .. upto-1.
Deletions(word, upto) ==
  [k \in 1..upto |->
     Slice(word, 0, k - 1) \o Slice(word, k, Len(word))]

\* word[:i] + string(word[i+1]) + string(word[i]) + word[i+2:]
\* for i = 0 .. upto-1.
Transpositions(word, upto) ==
  [k \in 1..upto |->
     Slice(word, 0, k - 1) \o CharString(At(word, k))
       \o CharString(At(word, k - 1)) \o Slice(word, k + 1, Len(word))]

\* word[:i] + string(c) + word[i+1:] for i = 0 .. len-1 and the letters c
\* in ls, in loop order; with skipSame the letter equal to word[i] is left
\* out.
SubstitutionsBy(word, ls, skipSame) ==
  LET Kept(k) == ~(skipSame /\ ls[((k - 1) % Len(ls)) + 1]
                                 = At(word, (k - 1) \div Len(ls)))
      Edit(k) == Slice(word, 0, (k - 1) \div Len(ls))
                   \o CharString(ls[((k - 1) % Len(ls)) + 1])
                   \o Slice(word, ((k - 1) \div Len(ls)) + 1, Len(word))
      Edits(ks) == [n \in 1..Len(ks) |-> Edit(ks[n])]
  IN  Edits(SelectSeq([k \in 1..(Len(word) * Len(ls)) |-> k], Kept))

Substitutions(word, step, skipSame) ==
  SubstitutionsBy(word, Letters(step), skipSame)

\* word[:i] + string(c) + word[i:] for i = 0 .. len and c = 'a' .. 'z'.
Insertions(word) ==
  [k \in 1..((Len(word) + 1) * 26) |->
     Slice(word, 0, (k - 1) \div 26) \o CharString(97 + ((k - 1) % 26))
       \o Slice(word, (k - 1) \div 26, Len(word))]

\* The found edits as candidates, each scored against originalLen.
AsCandidates(found, distance, originalLen) ==
  [k \in 1..Len(found) |->
     Candidate(found[k], distance, getWordScore(found[k], originalLen))]

\* The candidates of a list of edits: the edits that are dictionary words.
Hits(edits, distance, originalLen) ==
  LET InDictionary(e) == ~Poisoned(e) /\ search(dictionary, e)
  IN  AsCandidates(SelectSeq(edits, InDictionary), distance, originalLen)

AnyPoisoned(edits) == \E k \in 1..Len(edits) : Poisoned(edits[k])

\* The candidates of the four edit families, in the order deletions,
\* transpositions, substitutions, insertions; an edit that ran out of range
\* makes the function panic.
candidatesOfEdits(wordLen, dels, trs, subs, ins) ==
  [cands |-> Hits(dels, 1, wordLen - 1) \o Hits(trs, 1, wordLen)
               \o Hits(subs, 1, wordLen) \o Hits(ins, 1, wordLen + 1),
   panic |-> AnyPoisoned(dels) \/ AnyPoisoned(trs) \/ AnyPoisoned(subs)
               \/ AnyPoisoned(ins)]

\* Steps 1 to 4 of findCandidatesWithDistance: the distance-1 candidates.
distance1Candidates(word) ==
  candidatesOfEdits(Len(word), Deletions(word, Len(word)),
                    Transpositions(word, Len(word) - 1),
                    Substitutions(word, 1, TRUE), Insertions(word))

\* The edits with a transposition loop that runs one index too far.
generateAllEdits1Wide(word) ==
  Deletions(word, Len(word)) \o Transpositions(word, Len(word))
    \o Substitutions(word, 3, FALSE)

generateAllEdits1(word) ==
  Deletions(word, Len(word)) \o Transpositions(word, Len(word) - 1)
    \o Substitutions(word, 3, FALSE)

\* string(c) for the letters c of the second-pass substitutions.
secondLetters ==
  [j \in 1..Len(Letters(2)) |-> CharString(Letters(2)[j])] \o <<>>

\* edit1[:i] and edit1[i+1:] for every position i of edit1.
splitAround(edit1) ==
  [i \in 1..Len(edit1) |-> [left  |-> Slice(edit1, 0, i - 1),
                            right |-> Slice(edit1, i, Len(edit1))]] \o <<>>

\* The second edits made of the given parts, in loop order: for each
\* position i the deletion edit1[:i] + edit1[i+1:], then the substitutions
\* edit1[:i] + string(c) + edit1[i+1:].
secondEditsOf(parts, per) ==
  [k \in 1..(Len(parts) * per) |->
     IF (k - 1) % per = 0
       THEN parts[((k - 1) \div per) + 1].left
              \o parts[((k - 1) \div per) + 1].right
       ELSE parts[((k - 1) \div per) + 1].left
              \o secondLetters[(k - 1) % per]
              \o parts[((k - 1) \div per) + 1].right]

secondEdits(edit1) == secondEditsOf(splitAround(edit1), 1 + Len(secondLetters))

\* The candidate list with a distance-2 candidate for edit2 appended; done
\* marks the return taken when MAX_CANDIDATES is reached.
withSecond(acc, more) ==
  [acc EXCEPT !.cands = more, !.done = Len(more) >= MAX_CANDIDATES]

\* The body of the second-pass loops for the second edits of one edit1:
\* a dictionary word that is not yet a candidate is appended with
\* distance 2, and the function returns when MAX_CANDIDATES is reached.
RECURSIVE trySecondEdits(_, _)
trySecondEdits(acc, edits2) ==
  IF edits2 = <<>> \/ acc.done THEN acc
  ELSE IF Poisoned(Head(edits2))
    THEN [acc EXCEPT !.done = TRUE, !.panic = TRUE]
  ELSE IF /\ search(dictionary, Head(edits2))
          /\ ~containsWord(acc.cands, Head(edits2))
    THEN trySecondEdits(
           withSecond(acc, Append(acc.cands,
                                  Candidate(Head(edits2), 2,
                                            getWordScore(Head(edits2),
                                                         Len(Head(edits2)))))),
           Tail(edits2))
  ELSE trySecondEdits(acc, Tail(edits2))

\* Only the second edits that can change the outcome are folded over: the
\* dictionary words, and the edits that a slice out of range poisoned (at
\* their first or last byte).
relevantSecondEdits(edit1) ==
  LET Relevant(e) ==
        IF e = <<>> THEN search(dictionary, e)
        ELSE e[1] < 0 \/ e[Len(e)] < 0 \/ search(dictionary, e)
  IN  SelectSeq(secondEdits(edit1), Relevant)

\* The loop over the edit1 strings: an edit1 that is already a candidate is
\* skipped.
RECURSIVE secondPass(_, _)
secondPass(acc, edits1) ==
  IF edits1 = <<>> \/ acc.done THEN acc
  ELSE IF containsWord(acc.cands, Head(edits1))
    THEN secondPass(acc, Tail(edits1))
  ELSE secondPass(trySecondEdits(acc, relevantSecondEdits(Head(edits1))),
                  Tail(edits1))

\* The second round of edits of findCandidatesWithDistance.
secondRound(cands, edits1) ==
  IF AnyPoisoned(edits1) THEN [cands |-> <<>>, panic |-> TRUE, done |-> TRUE]
  ELSE secondPass([cands |-> cands, done |-> FALSE, panic |-> FALSE], edits1)

\* A findCandidatesWithDistance whose truncation drops the best-scored hit
\* and keeps the five after it.
afterDistance1Tail(word, maxDistance, first) ==
  IF first.panic THEN [cands |-> <<>>, panic |-> TRUE, done |-> TRUE]
  ELSE IF Len(first.cands) > MAX_CANDIDATES \div 2
    THEN [cands |-> SubSeq(SortSlice(first.cands, FALSE), 2,
                           MAX_CANDIDATES \div 2 + 1),
          panic |-> FALSE, done |-> TRUE]
  ELSE IF maxDistance >= 2
    THEN secondRound(first.cands, generateAllEdits1(word))
  ELSE [cands |-> first.cands, panic |-> FALSE, done |-> TRUE]

\* findCandidatesWithDistance after its distance-1 steps produced first.
afterDistance1(word, maxDistance, first) ==
  IF first.panic THEN [cands |-> <<>>, panic |-> TRUE, done |-> TRUE]
  ELSE IF Len(first.cands) > MAX_CANDIDATES \div 2
    THEN [cands |-> SubSeq(SortSlice(first.cands, FALSE), 1,
                           MAX_CANDIDATES \div 2),
          panic |-> FALSE, done |-> TRUE]
  ELSE IF maxDistance >= 2
    THEN secondRound(first.cands, generateAllEdits1(word))
  ELSE [cands |-> first.cands, panic |-> FALSE, done |-> TRUE]

\* The returned candidates are the field cands; panic tells that the call
\* ended in a run-time panic instead.
findCandidatesWithDistance(word, maxDistance) ==
  afterDistance1(word, maxDistance, distance1Candidates(word))

\* The sorted candidate list of findClosestMatch, from what the two calls
\* of findCandidatesWithDistance returned.
ranked(one, two) ==
  [candidates |-> SortSlice(one.cands \o two.cands, TRUE),
   panic      |-> one.panic \/ two.panic]

\* A findClosestMatch that makes the second call whatever the first
\* returned.
rankAfterAlways(word, one) ==
  ranked(one, IF ~one.panic
                THEN findCandidatesWithDistance(word, 2)
                ELSE [cands |-> <<>>, panic |-> FALSE])

\* The second call is made when the first returned fewer than 3 candidates.
rankAfter(word, one) ==
  ranked(one, IF ~one.panic /\ Len(one.cands) < 3
                THEN findCandidatesWithDistance(word, 2)
                ELSE [cands |-> <<>>, panic |-> FALSE])

\* The candidate list of findClosestMatch for a word that is not in the
\* dictionary, after the sort.
rankCandidates(word) == rankAfter(word, findCandidatesWithDistance(word, 1))

\* A findClosestMatch that returns the last candidate of the sorted list.
bestCandidateLast(word, rank) ==
  IF search(dictionary, word) THEN word
  ELSE IF rank.panic THEN Panic
  ELSE IF Len(rank.candidates) = 0 THEN word
  ELSE rank.candidates[Len(rank.candidates)].word

\* What findClosestMatch returns given its ranked candidate list.
bestCandidate(word, rank) ==
  IF search(dictionary, word) THEN word
  ELSE IF rank.panic THEN Panic
  ELSE IF Len(rank.candidates) = 0 THEN word
  ELSE rank.candidates[1].word

findClosestMatch(word) == bestCandidate(word, rankCandidates(word))

(***************************************************************************)
(* Text reconstruction.                                                    *)
(***************************************************************************)
\* The separator function handed to strings.FieldsFunc.
isSeparator(r) == IsSpace(r) \/ (IsPunct(r) /\ r # Apostrophe)

\* strings.FieldsFunc(text, isSeparator): the maximal runs of runes that are
\* not separators.  start is the byte offset of the open field, or -1.
RECURSIVE fieldsFrom(_, _, _)
fieldsFrom(text, rs, start) ==
  IF rs = <<>>
    THEN IF start >= 0 THEN <<Slice(text, start, Len(text))>> ELSE <<>>
  ELSE IF isSeparator(Head(rs).r)
    THEN IF start >= 0
           THEN <<Slice(text, start, Head(rs).pos)>>
                  \o fieldsFrom(text, Tail(rs), -1)
           ELSE fieldsFrom(text, Tail(rs), -1)
  ELSE fieldsFrom(text, Tail(rs), IF start < 0 THEN Head(rs).pos ELSE start)

FieldsFunc(text) == fieldsFrom(text, Range(text), -1)

isNumber(s) == \A k \in 1..Len(Runes(s)) : IsDigit(Runes(s)[k])

isAllUppercase(s) ==
  \A k \in 1..Len(Runes(s)) : ~(IsLetter(Runes(s)[k]) /\ ~IsUpper(Runes(s)[k]))

\* The prefix loop of correctSpelling from index i on: bytes that are neither
\* letters nor numbers go to the prefix; the first other byte cuts cleanWord.
RECURSIVE extractPrefix(_, _, _)
extractPrefix(cleanWord, prefix, i) ==
  IF i >= Len(cleanWord) THEN [prefix |-> prefix, cleanWord |-> cleanWord]
  ELSE IF ~IsLetter(At(cleanWord, i)) /\ ~IsNumber(At(cleanWord, i))
    THEN extractPrefix(cleanWord, prefix \o CharString(At(cleanWord, i)), i + 1)
  ELSE [prefix |-> prefix, cleanWord |-> Slice(cleanWord, i, Len(cleanWord))]

\* The suffix loop of correctSpelling from index i down: trailing bytes that
\* are neither letters nor numbers nor apostrophes move to the suffix.
RECURSIVE extractSuffix(_, _, _)
extractSuffix(cleanWord, suffix, i) ==
  IF i < 0 THEN [suffix |-> suffix, cleanWord |-> cleanWord]
  ELSE IF /\ ~IsLetter(At(cleanWord, i))
          /\ ~IsNumber(At(cleanWord, i))
          /\ At(cleanWord, i) # Apostrophe
    THEN extractSuffix(Slice(cleanWord, 0, i),
                       CharString(At(cleanWord, i)) \o suffix, i - 1)
  ELSE [suffix |-> suffix, cleanWord |-> cleanWord]

\* The test that skips a word that is empty, a number or very short.
skipCorrection(cleanWord) == Len(cleanWord) <= 2 \/ isNumber(cleanWord)

\* The test that skips a word that is in the dictionary.
inDictionary(cleanWord) == search(dictionary, ToLower(cleanWord))

\* A correction that is written as the dictionary has it.
withCaseDropped(cleanWord, match) == match

\* The correction with the case pattern of cleanWord: upper case when
\* cleanWord has no lower-case letter, else a capital first byte when
\* cleanWord starts with one.
withCase(cleanWord, match) ==
  IF isAllUppercase(cleanWord) THEN ToUpper(match)
  ELSE IF IsUpper(At(cleanWord, 0))
    THEN ToUpper(CharString(At(match, 0))) \o Slice(match, 1, Len(match))
  ELSE match

\* "Apply original capitalization": the text written for cleanWord when
\* findClosestMatch(lowerWord) returned match.
applyCapitalization(cleanWord, lowerWord, match) ==
  IF match # lowerWord THEN withCase(cleanWord, match) ELSE cleanWord

\* The parts of a word after the prefix and suffix loops.
wordParts(word, prefix, cleanWord, suffix) ==
  [word |-> word, prefix |-> prefix, cleanWord |-> cleanWord,
   suffix |-> suffix]

\* The record of an iteration that wrote the word as it was (or panicked):
\* the parts of the word, the branch taken and the text written.
passThrough(w, path, panic) ==
  w @@ [path |-> path, lowerWord |-> <<>>, candidates |-> <<>>,
        match |-> <<>>, corrected |-> <<>>, written |-> w.word,
        panic |-> panic]

\* The end of an iteration that found no word in the dictionary: the
\* correction with the prefix and the suffix around it is written.
writeCorrected(w, lowerWord, rank, match, corrected) ==
  w @@ [path |-> "search", lowerWord |-> lowerWord,
        candidates |-> rank.candidates, match |-> match,
        corrected |-> corrected,
        written |-> w.prefix \o corrected \o w.suffix,
        panic |-> Poisoned(w.prefix \o corrected \o w.suffix)]

matchFound(w, lowerWord, rank, match) ==
  writeCorrected(w, lowerWord, rank, match,
                 applyCapitalization(w.cleanWord, lowerWord, match))

searchMatch(w, lowerWord, rank) ==
  matchFound(w, lowerWord, rank, bestCandidate(lowerWord, rank))

\* An iteration after the prefix and the suffix were taken off the word.
correctClean(w) ==
  IF Poisoned(w.prefix) \/ Poisoned(w.suffix) \/ Poisoned(w.cleanWord)
    THEN passThrough(w, "panic", TRUE)
  ELSE IF skipCorrection(w.cleanWord) THEN passThrough(w, "short", FALSE)
  ELSE IF inDictionary(w.cleanWord) THEN passThrough(w, "known", FALSE)
  ELSE searchMatch(w, ToLower(w.cleanWord),
                   rankCandidates(ToLower(w.cleanWord)))

afterPrefix(word, pre, suf) ==
  correctClean(wordParts(word, pre.prefix, suf.cleanWord, suf.suffix))

stripSuffix(word, pre) ==
  afterPrefix(word, pre,
              extractSuffix(pre.cleanWord, <<>>, Len(pre.cleanWord) - 1))

\* One iteration of the loop over the words (after the position of the word
\* is known): what is written for the word, and how it was decided.
correctWord(word) == stripSuffix(word, extractPrefix(word, <<>>, 0))

\* The state of the loop after an iteration wrote token for the word found
\* at wordPos.
afterWord(text, acc, wordPos, token) ==
  [result  |-> acc.result \o Slice(text, acc.lastPos, wordPos)
                 \o token.written,
   lastPos |-> wordPos + Len(token.word),
   tokens  |-> Append(acc.tokens, token @@ [wordPos |-> wordPos]),
   panic   |-> token.panic \/ Poisoned(Slice(text, acc.lastPos, wordPos))]

\* An iteration for a word that strings.Index found at offset found of
\* text[lastPos:] (-1: not found, the word is skipped).
atWord(text, acc, word, found) ==
  IF found = -1 THEN acc
  ELSE afterWord(text, acc, found + acc.lastPos, correctWord(word))

\* The loop over the words of correctSpelling.
RECURSIVE correctWords(_, _, _)
correctWords(text, words, acc) ==
  IF words = <<>> \/ acc.panic THEN acc
  ELSE correctWords(text, Tail(words),
         atWord(text, acc, Head(words),
                Index(Slice(text, acc.lastPos, Len(text)), Head(words))))

\* The end of correctSpelling: the remaining text is appended.
appendRest(text, loop) ==
  [result |-> loop.result \o Slice(text, loop.lastPos, Len(text)),
   tokens |-> loop.tokens,
   panic  |-> loop.panic \/ Poisoned(Slice(text, loop.lastPos, Len(text)))]

correctFields(text, words) ==
  IF Len(words) = 0
    THEN [result |-> text, tokens |-> <<>>, panic |-> FALSE]
    ELSE appendRest(text,
                    correctWords(text, words,
                                 [result |-> <<>>, lastPos |-> 0,
                                  tokens |-> <<>>, panic |-> FALSE]))

\* correctSpelling with the record of its iterations: the returned string is
\* the field result.
correctSpellingRun(text) == correctFields(text, FieldsFunc(text))

correctSpelling(text) == correctSpellingRun(text).result


(***************************************************************************)
(* Bounds and input sets.                                                  *)
(***************************************************************************)
\* The number of dictionary lines the loader reads.
MaxDictWords == 2

\* The longest text handed to correctSpelling.
MaxTextLen == 14

\* The number of correctSpelling calls in a row.
MaxChecks == 2

\* UTF-8 of U+00E9 (e with acute accent).
EAcute == <<195, 169>>

\* Lines of the dictionary file; the last one is a line of a file in the
\* Latin-1 encoding, where U+00E9 is the single byte E9.
DictLines == {Str("hello"), Str(" Hell "), Str(""), Str("caf") \o EAcute,
              Str("caf") \o <<233>>}

\* Token cores.
Cores == {Str(c) : c \in {"helllo", "Helllo", "HELLLO", "hellxo", "xqzzy",
                          "ok", "42", "a", "123", "hello", "Hell", "HELLO",
                          "'''", "$$$", "hell'", "hair", "any", "ther"}}
           \cup {Str("caf") \o EAcute, EAcute \o Str("hello"),
                 Str("caf") \o EAcute \o Str("s")}

\* Single tokens: the cores, alone or inside symbol characters or quotes.
Tokens == Cores \cup {Str("$Helllo$"), Str("$ok$"), Str("'xqzzy'")}

\* Texts of several tokens with whitespace and punctuation between them.
Sentences == {Str(" Helllo, ok. "), Str("ok hellxo!"), Str("''' Hell")}

Texts == {Str("")} \cup Tokens \cup Sentences

(***************************************************************************)
(* The state machine.                                                      *)
(***************************************************************************)
\* The two goroutines that call checkSpelling: the hotkey listener of main
\* and the menu handler of onReady.
Triggers == {"hotkey", "menu"}

\* A trigger that is not inside checkSpelling.
Idle == [active |-> FALSE, text |-> <<>>]

NoRun == [calls |-> 0, text |-> <<>>, result |-> <<>>, tokens |-> <<>>,
          panic |-> FALSE]

\* No clipboard function was called yet.
NoCall == [fn |-> "none", pc |-> "idle", i |-> 0, defers |-> <<>>,
           log |-> <<>>, panicking |-> FALSE]

Init ==
  /\ dictionary = newTrie
  /\ WordFrequency = <<>>
  /\ wordCount = 0
  /\ inserted = {}
  /\ loaded = FALSE
  /\ clipboard = <<>>
  /\ run = NoRun
  /\ inFlight = [t \in Triggers |-> Idle]
  /\ sortBuild \in SortBuilds
  /\ clip = NoCall

\* WordFrequency[word] = weight.
setFrequency(freq, word, weight) == (word :> weight) @@ freq

\* The body of the scanner loop of loadDictionary on the given line.
scanLine(line) ==
  LET word == ToLower(TrimSpace(line))
  IN  IF TrimSpace(line) # <<>>
        THEN /\ dictionary' = insert(dictionary, word)
             /\ WordFrequency' =
                  setFrequency(WordFrequency, word, 1000 - wordCount)
             /\ wordCount' = wordCount + 1
             /\ inserted' = inserted \cup {word}
        ELSE UNCHANGED <<dictionary, WordFrequency, wordCount, inserted>>

\* One iteration of the scanner loop of loadDictionary on the given line.
LoadWord(line) ==
  /\ ~loaded
  /\ wordCount < MaxDictWords
  /\ scanLine(line)
  /\ UNCHANGED <<loaded, clipboard, run, inFlight, sortBuild, clip>>

\* The words of loadBuiltInDictionary, in the order of its list.
builtInWords ==
  LET ws == <<
    "the", "is", "a", "an", "and", "are", "as", "at", "be", "but", "by",
    "for", "if", "in", "into", "it", "no", "not", "of", "on", "or", "such",
    "that", "their", "then", "there", "these", "they", "this", "to", "was",
    "will", "with", "he", "she", "they", "them", "we", "us", "our", "you",
    "your", "him", "his", "her", "its", "my", "me", "mine", "sentence",
    "typos", "check", "spell", "checker", "some", "test", "have", "has", "had",
    "do", "does", "did", "can", "could", "would", "should", "may", "might",
    "must", "shall", "will", "from", "about", "like", "know", "think", "see",
    "come", "go", "get", "make", "say", "take", "find", "give", "tell", "work",
    "call", "try", "ask", "need", "feel", "become", "leave", "put", "mean", "keep",
    "let", "begin", "seem", "help", "talk", "turn", "start", "show", "hear", "play",
    "run", "move", "live", "happen", "stand", "lose", "pay", "meet", "include", "continue",
    "set", "learn", "change", "lead", "understand", "watch", "follow", "stop", "create",
    "speak", "read", "allow", "add", "spend", "grow", "open", "walk", "win", "offer",
    "remember", "appear", "buy", "wait", "serve", "die", "send", "expect", "build", "stay",
    "fall", "cut", "reach", "kill", "remain">>
  IN  [k \in 1..Len(ws) |-> Str(ws[k])]

\* The loop of loadBuiltInDictionary for the words k .. last of the list: a
\* word that the dictionary does not hold is inserted with the current
\* weight, which then goes down by one.
RECURSIVE loadBuiltInFrom(_, _, _)
loadBuiltInFrom(st, k, last) ==
  IF k > last THEN st
  ELSE IF search(st.dictionary, builtInWords[k])
    THEN loadBuiltInFrom(st, k + 1, last)
  ELSE loadBuiltInFrom(
         [dictionary    |-> insert(st.dictionary, builtInWords[k]),
          WordFrequency |-> setFrequency(st.WordFrequency, builtInWords[k],
                                         st.weight),
          weight        |-> st.weight - 1],
         k + 1, last)

\* The whole loop, ten words at a time (which keeps the evaluation of the
\* loop shallow).
RECURSIVE loadBuiltInTens(_, _)
loadBuiltInTens(st, k) ==
  IF k > Len(builtInWords) THEN st
  ELSE loadBuiltInTens(
         loadBuiltInFrom(st, k, IF k + 9 < Len(builtInWords)
                                  THEN k + 9 ELSE Len(builtInWords)),
         k + 10)

loadBuiltInDictionary(t, freq) ==
  loadBuiltInTens([dictionary |-> t, WordFrequency |-> freq, weight |-> 5000],
                  1)

\* The dictionary and the frequency table after the built-in words were
\* added.
toppedUp(built) ==
  /\ dictionary' = built.dictionary
  /\ WordFrequency' = built.WordFrequency
  /\ inserted' = inserted \cup {builtInWords[k] : k \in 1..Len(builtInWords)}

\* A test of the file's word count that never asks for the built-in words.
tooSmallNever(n) == n < 0

\* The test of loadDictionary on the number of words read from the file.
tooSmall(n) == n < 100

\* The end of loadDictionary, after the last line of the file (or when the
\* file could not be opened, before any line): a dictionary of fewer than
\* 100 words gets the built-in words.
FinishLoading ==
  /\ ~loaded
  /\ loaded' = TRUE
  /\ IF tooSmall(wordCount)
        THEN toppedUp(loadBuiltInDictionary(dictionary, WordFrequency))
        ELSE UNCHANGED <<dictionary, WordFrequency, inserted>>
  /\ UNCHANGED <<wordCount, clipboard, run, inFlight, sortBuild, clip>>

\* The effect of a correctSpelling call that returned r on the given text.
storeResult(text, r) ==
  /\ run' = [calls |-> run.calls + 1, text |-> text, result |-> r.result,
             tokens |-> r.tokens, panic |-> r.panic]
  /\ clipboard' = IF r.panic THEN text ELSE r.result

\* checkSpelling with the given text on the clipboard.  A fresh text is
\* drawn once; afterwards the clipboard is what the last call wrote.
CheckSpelling(text) ==
  /\ loaded
  /\ Len(text) <= MaxTextLen
  /\ run.calls < MaxChecks
  /\ IF run.calls > 0 THEN text = clipboard ELSE TRUE
  /\ IF text = <<>>
        THEN UNCHANGED <<clipboard, run>>
        ELSE storeResult(text, correctSpellingRun(text))
  /\ UNCHANGED <<dictionary, WordFrequency, wordCount, inserted, loaded,
                 inFlight, sortBuild, clip>>

Next ==
  \/ \E line \in DictLines : LoadWord(line)
  \/ FinishLoading
  \/ \E text \in Texts \cup {clipboard} : CheckSpelling(text)

Spec == Init /\ [][Next]_vars

(***************************************************************************)
(* The two triggers, with checkSpelling in two steps: the read of the      *)
(* clipboard, and the correction with the write of the clipboard.  Calls   *)
(* from the two goroutines interleave between these steps.                 *)
(***************************************************************************)
\* Texts on the clipboard when a trigger fires.
TriggerTexts == Sentences \cup {Str("helllo"), Str("")}

\* The number of checkSpelling calls begun so far.
begun == run.calls + Cardinality({t \in Triggers : inFlight[t].active})

\* A start of the listeners before the dictionary is loaded.
listenersStartedEarly == TRUE

\* main starts the hotkey goroutine and systray.Run (which calls onReady)
\* after loadDictionary has returned.
listenersStarted == loaded

\* The start of checkSpelling in the goroutine of trigger t: the text is
\* read from the clipboard, and an empty text ends the call.  The user
\* copies a fresh text before the first call only.
Begin(t, text) ==
  /\ listenersStarted
  /\ ~inFlight[t].active
  /\ begun < MaxChecks
  /\ Len(text) <= MaxTextLen
  /\ IF begun > 0 THEN text = clipboard ELSE TRUE
  /\ clipboard' = text
  /\ inFlight' = IF text = <<>> THEN inFlight
                 ELSE [inFlight EXCEPT ![t] = [active |-> TRUE, text |-> text]]
  /\ UNCHANGED <<dictionary, WordFrequency, wordCount, inserted, loaded, run,
                 sortBuild, clip>>

\* The rest of checkSpelling in the goroutine of trigger t: correctSpelling
\* on the text that was read, and the write of the clipboard.
Finish(t) ==
  /\ inFlight[t].active
  /\ storeResult(inFlight[t].text, correctSpellingRun(inFlight[t].text))
  /\ inFlight' = [inFlight EXCEPT ![t] = Idle]
  /\ UNCHANGED <<dictionary, WordFrequency, wordCount, inserted, loaded,
                 sortBuild, clip>>

TriggerNext ==
  \/ \E line \in DictLines : LoadWord(line)
  \/ FinishLoading
  \/ \E t \in Triggers : \E text \in TriggerTexts : Begin(t, text)
  \/ \E t \in Triggers : Finish(t)

TriggerSpec == Init /\ [][TriggerNext]_vars


(***************************************************************************)
(* correctSpelling on a dictionary that holds the words of a file and      *)
(* nothing else (loadDictionary adds nothing to a file of 100 words or     *)
(* more; here the file is cut down to the words near the texts).           *)
(***************************************************************************)
\* The lines of the file.
FixedLines == {Str("this"), Str("is"), Str("a"), Str("test")}

FixedWords == {ToLower(TrimSpace(line)) : line \in FixedLines}

FixedTexts == {Str("Ths is a tst."), Str("THS tst"), Str("a tst!")}

\* One iteration of the scanner loop of loadDictionary, each line of the
\* file once, in any order.
ScanFixed(line) ==
  /\ ~loaded
  /\ ToLower(TrimSpace(line)) \notin inserted
  /\ scanLine(line)
  /\ UNCHANGED <<loaded, clipboard, run, inFlight, sortBuild, clip>>

\* The end of loadDictionary when nothing is added to the words of the
\* file.
FinishFixed ==
  /\ ~loaded
  /\ inserted = FixedWords
  /\ loaded' = TRUE
  /\ UNCHANGED <<dictionary, WordFrequency, wordCount, inserted, clipboard,
                 run, inFlight, sortBuild, clip>>

FixedNext ==
  \/ \E line \in FixedLines : ScanFixed(line)
  \/ FinishFixed
  \/ \E text \in FixedTexts \cup {clipboard} : CheckSpelling(text)

FixedSpec == Init /\ [][FixedNext]_vars

(***************************************************************************)
(* loadDictionary on a long file of distinct words, one per line.          *)
(***************************************************************************)
\* The number of lines of the file.
MaxFileLines == 1002

\* Line k (from 0) of the file: three letters that spell k in base 26.
fileLine(k) ==
  <<97 + ((k \div 676) % 26), 97 + ((k \div 26) % 26), 97 + (k % 26)>>

\* One iteration of the scanner loop of loadDictionary: no line of this file
\* is empty, so the next line is line wordCount.
ScanFile ==
  /\ ~loaded
  /\ wordCount < MaxFileLines
  /\ scanLine(fileLine(wordCount))
  /\ UNCHANGED <<loaded, clipboard, run, inFlight, sortBuild, clip>>

\* The end of loadDictionary after the last line of the file.
FinishFile ==
  /\ wordCount = MaxFileLines
  /\ FinishLoading

FileNext == ScanFile \/ FinishFile

FileSpec == Init /\ [][FileNext]_vars

(***************************************************************************)
(* getClipboardText and setClipboardText, one Windows API call per step.   *)
(* clip.i is the loop counter, clip.defers the stack of deferred calls,    *)
(* clip.log the API calls of the current call of the function with their   *)
(* outcomes, clip.pc the next statement.                                   *)
(***************************************************************************)
ClipboardFunctions == {"getClipboardText", "setClipboardText"}

\* The retry loop `for i := 0; i < 3; i++`.
openAttempts == 3

\* A defer statement that registers nothing.
deferDropped(defers, call) == defers

\* `defer call`.
deferCall(defers, call) == Append(defers, call)

\* The clipboard variable after a step; the program's other variables stay.
clipStep(next) ==
  /\ clip' = next
  /\ UNCHANGED <<dictionary, WordFrequency, wordCount, inserted, loaded,
                 clipboard, run, inFlight, sortBuild>>

\* A call of one of the two functions begins (after the last one returned).
CallClipboardFunction(fn) ==
  /\ clip.pc \in {"idle", "returned"}
  /\ clipStep([NoCall EXCEPT !.fn = fn, !.pc = "OpenClipboard"])

\* openClipboard.Call(0): on failure `continue`, and the function returns
\* after the third failure; on success the close is deferred.
OpenClipboard(ok) ==
  /\ clip.pc = "OpenClipboard"
  /\ clip.i < openAttempts
  /\ IF ok
       THEN clipStep([clip EXCEPT
              !.log = Append(@, "OpenClipboard ok"),
              !.defers = deferCall(@, "CloseClipboard"),
              !.pc = IF clip.fn = "getClipboardText" THEN "GetClipboardData"
                     ELSE "EmptyClipboard"])
       ELSE clipStep([clip EXCEPT
              !.log = Append(@, "OpenClipboard failed"),
              !.i = @ + 1,
              !.pc = IF clip.i + 1 < openAttempts THEN "OpenClipboard"
                     ELSE "return"])

\* getClipboardData.Call(CF_UNICODETEXT) of getClipboardText.
GetClipboardData(ok) ==
  /\ clip.pc = "GetClipboardData"
  /\ clipStep([clip EXCEPT
        !.log = Append(@, IF ok THEN "GetClipboardData ok"
                          ELSE "GetClipboardData failed"),
        !.pc = IF ok THEN "GlobalLock" ELSE "return"])

\* win.GlobalLock: getClipboardText defers the unlock, reads the text and
\* returns; setClipboardText goes on to the copy, or frees the memory and
\* returns.
GlobalLock(ok) ==
  /\ clip.pc = "GlobalLock"
  /\ IF clip.fn = "getClipboardText"
       THEN clipStep([clip EXCEPT
              !.log = Append(@, IF ok THEN "GlobalLock ok"
                                ELSE "GlobalLock failed"),
              !.defers = IF ok THEN deferCall(@, "GlobalUnlock") ELSE @,
              !.pc = "return"])
       ELSE clipStep([clip EXCEPT
              !.log = IF ok THEN Append(@, "GlobalLock ok")
                      ELSE @ \o <<"GlobalLock failed", "GlobalFree">>,
              !.pc = IF ok THEN "copy" ELSE "return"])

\* emptyClipboard.Call() of setClipboardText.
EmptyClipboard(ok) ==
  /\ clip.pc = "EmptyClipboard"
  /\ clipStep([clip EXCEPT
        !.log = Append(@, IF ok THEN "EmptyClipboard ok"
                          ELSE "EmptyClipboard failed"),
        !.pc = IF ok THEN "UTF16FromString" ELSE "return"])

\* syscall.UTF16FromString(text): an error for a text with a NUL.
UTF16FromString(ok) ==
  /\ clip.pc = "UTF16FromString"
  /\ clipStep([clip EXCEPT
        !.log = Append(@, IF ok THEN "UTF16FromString ok"
                          ELSE "UTF16FromString failed"),
        !.pc = IF ok THEN "GlobalAlloc" ELSE "return"])

\* win.GlobalAlloc.
GlobalAlloc(ok) ==
  /\ clip.pc = "GlobalAlloc"
  /\ clipStep([clip EXCEPT
        !.log = Append(@, IF ok THEN "GlobalAlloc ok"
                          ELSE "GlobalAlloc failed"),
        !.pc = IF ok THEN "GlobalLock" ELSE "return"])

\* copy(([1 << 20]uint16)(p)[:len(utf16)], utf16), then win.GlobalUnlock:
\* the slice expression panics for a text of more than 1 << 20 code units.
CopyText(fits) ==
  /\ clip.pc = "copy"
  /\ IF fits
       THEN clipStep([clip EXCEPT !.log = Append(@, "GlobalUnlock"),
                                  !.pc = "SetClipboardData"])
       ELSE clipStep([clip EXCEPT !.panicking = TRUE, !.pc = "return"])

\* setClipboardData.Call: on failure the memory is freed.
SetClipboardData(ok) ==
  /\ clip.pc = "SetClipboardData"
  /\ clipStep([clip EXCEPT
        !.log = IF ok THEN Append(@, "SetClipboardData ok")
                ELSE @ \o <<"SetClipboardData failed", "GlobalFree">>,
        !.pc = "return"])

\* On the way out (a return statement or a panic) the deferred calls run,
\* the last deferred first.
RunDeferred ==
  /\ clip.pc = "return"
  /\ clip.defers # <<>>
  /\ clipStep([clip EXCEPT
        !.log = Append(@, clip.defers[Len(clip.defers)]),
        !.defers = SubSeq(@, 1, Len(@) - 1)])

\* The function has returned to its caller, or the panic leaves it.
ReturnFromClipboard ==
  /\ clip.pc = "return"
  /\ clip.defers = <<>>
  /\ clipStep([clip EXCEPT
        !.pc = IF clip.panicking THEN "panicked" ELSE "returned"])

ClipNext ==
  \/ \E fn \in ClipboardFunctions : CallClipboardFunction(fn)
  \/ \E ok \in BOOLEAN : OpenClipboard(ok)
  \/ \E ok \in BOOLEAN : GetClipboardData(ok)
  \/ \E ok \in BOOLEAN : GlobalLock(ok)
  \/ \E ok \in BOOLEAN : EmptyClipboard(ok)
  \/ \E ok \in BOOLEAN : UTF16FromString(ok)
  \/ \E ok \in BOOLEAN : GlobalAlloc(ok)
  \/ \E fits \in BOOLEAN : CopyText(fits)
  \/ \E ok \in BOOLEAN : SetClipboardData(ok)
  \/ RunDeferred
  \/ ReturnFromClipboard

ClipSpec == Init /\ [][ClipNext]_vars

(***************************************************************************)
(* Properties.                                                             *)
(***************************************************************************)
\* The strings a trie lookup is tried on: the dictionary words, their
\* prefixes and their extensions by one letter.
QueryWords ==
  LET words == {ToLower(TrimSpace(l)) : l \in DictLines}
  IN  UNION {{SubSeq(w, 1, n) : n \in 0..Len(w)} : w \in words}
        \cup {w \o Str("s") : w \in words}

\* C1: after any sequence of Trie.insert calls, search(w) is true exactly
\* for the inserted words w: a prefix or an extension of an inserted word
\* that was not inserted itself is absent.
C1_Membership ==
  \A w \in QueryWords : search(dictionary, w) <=> w \in inserted

\* The records of the tokens of the last correctSpelling call.
LastTokens == {run.tokens[k] : k \in 1..Len(run.tokens)}

IsAlnum(r) == IsLetter(r) \/ IsNumber(r)

\* The parts of a token, character by character: the leading characters
\* that are neither letters nor digits are the prefix, the trailing ones
\* that are neither letters nor digits nor apostrophes are the suffix, and
\* the core is what is between them.  A token without a letter or a digit
\* has an empty core.
TokenParts(word) ==
  LET rs    == Range(word)
      alnum == {k \in 1..Len(rs) : IsAlnum(rs[k].r)}
      kept  == {k \in 1..Len(rs) : IsAlnum(rs[k].r) \/ rs[k].r = Apostrophe}
      first == CHOOSE k \in alnum : \A j \in alnum : k <= j
      last  == CHOOSE k \in kept : \A j \in kept : k >= j
  IN  IF alnum = {}
        THEN [prefix |-> word, core |-> <<>>, suffix |-> <<>>]
        ELSE [prefix |-> SubSeq(word, 1, rs[first].pos),
              core   |-> SubSeq(word, rs[first].pos + 1,
                                rs[last].pos + rs[last].w),
              suffix |-> SubSeq(word, rs[last].pos + rs[last].w + 1,
                                Len(word))]

\* The byte spans [from, to) of the tokens of a text: the maximal runs of
\* characters that are neither white space nor punctuation other than the
\* apostrophe.
TokenSpans(text) ==
  LET rs       == Range(text)
      InWord(k) == k >= 1 /\ k <= Len(rs) /\ ~isSeparator(rs[k].r)
      Starts(k) == InWord(k) /\ ~InWord(k - 1)
      EndOf(k)  == CHOOSE e \in k..Len(rs) :
                     /\ \A j \in k..e : InWord(j)
                     /\ ~InWord(e + 1)
      starts    == SelectSeq([k \in 1..Len(rs) |-> k], Starts)
  IN  [n \in 1..Len(starts) |->
         [from |-> rs[starts[n]].pos,
          to   |-> rs[EndOf(starts[n])].pos + rs[EndOf(starts[n])].w]]

\* The text with the n first tokens replaced by what was written for them,
\* up to the end of the n-th token.
RECURSIVE Reassembled(_, _, _, _)
Reassembled(text, spans, written, n) ==
  IF n = 0 THEN <<>>
  ELSE Reassembled(text, spans, written, n - 1)
         \o SubSeq(text, (IF n = 1 THEN 0 ELSE spans[n - 1].to) + 1,
                   spans[n].from)
         \o written[n]

\* C2: the output of correctSpelling is the input with only the cores of
\* the tokens possibly replaced: the text between the tokens is kept, in
\* order, and what is written for a token has the prefix and the suffix of
\* the token, once each.
C2_Frame ==
  run.calls > 0 =>
    LET spans   == TokenSpans(run.text)
        written == [k \in 1..Len(run.tokens) |-> run.tokens[k].written]
    IN  /\ Len(run.tokens) = Len(spans)
        /\ \A k \in 1..Len(spans) :
             /\ run.tokens[k].word
                  = SubSeq(run.text, spans[k].from + 1, spans[k].to)
             /\ TokenParts(written[k]).prefix
                  = TokenParts(run.tokens[k].word).prefix
             /\ TokenParts(written[k]).suffix
                  = TokenParts(run.tokens[k].word).suffix
        /\ run.result
             = Reassembled(run.text, spans, written, Len(spans))
                 \o SubSeq(run.text,
                           (IF Len(spans) = 0 THEN 0
                            ELSE spans[Len(spans)].to) + 1,
                           Len(run.text))

\* Every token that the last call corrected was replaced by a dictionary
\* word.
AllLanded ==
  \A t \in LastTokens :
    (t.path = "search" /\ t.match # t.lowerWord) => t.match \in inserted

\* C3: correctSpelling is idempotent: when every corrected token of a call
\* was replaced by a dictionary word, the call on the text that this call
\* returned returns that text.
C3_Idempotent ==
  [][(/\ run.calls >= 1
      /\ run'.calls = run.calls + 1
      /\ run'.text = run.result
      /\ AllLanded) => run'.result = run.result]_vars

\* C4: a token whose lowercased core is not in the dictionary and that has
\* no candidate at distance 1 or 2 is written as it was in the input.
C4_Fallback ==
  \A t \in LastTokens :
    LET core == TokenParts(t.word).core
    IN  (/\ core # <<>>
         /\ ToLower(core) \notin inserted
         /\ t.path = "search"
         /\ t.candidates = <<>>) => t.written = t.word

\* C5: a token without a letter or a digit is written as it was in the
\* input, once.
C5_NoCore ==
  \A t \in LastTokens :
    (\A k \in 1..Len(Runes(t.word)) : ~IsAlnum(Runes(t.word)[k]))
      => t.written = t.word

\* C6: a token whose core has at most 2 bytes, or only digits, is written
\* as it was in the input, without a candidate search.
C6_ShortOrNumeric ==
  \A t \in LastTokens :
    LET core == TokenParts(t.word).core
    IN  (\/ Len(core) <= 2
         \/ \A k \in 1..Len(Runes(core)) : IsDigit(Runes(core)[k]))
          => (t.written = t.word /\ t.path # "search")

\* C7: a token whose lowercased core is a dictionary word is written as it
\* was in the input, without a candidate search.
C7_KnownWord ==
  \A t \in LastTokens :
    ToLower(TokenParts(t.word).core) \in inserted
      => (t.written = t.word /\ t.path # "search")

\* The correction with the case pattern of the core: upper case when every
\* letter of the core is an upper-case letter, else with an upper-case first
\* character when the first character of the core is one, else as it is.
CasePattern(core, match) ==
  LET cs == Runes(core)
      ms == Runes(match)
  IN  IF \A k \in 1..Len(cs) : IsLetter(cs[k]) => IsUpper(cs[k])
        THEN EncodeRunes([k \in 1..Len(ms) |-> RuneToUpper(ms[k])])
      ELSE IF IsUpper(cs[1])
        THEN EncodeRunes([k \in 1..Len(ms) |->
                            IF k = 1 THEN RuneToUpper(ms[k]) ELSE ms[k]])
      ELSE match

\* C8: a correction is written with the case pattern of the core of the
\* token, between the prefix and the suffix of the token.
C8_CasePreserved ==
  \A t \in LastTokens :
    (t.path = "search" /\ t.match # t.lowerWord)
      => LET parts == TokenParts(t.word)
         IN  t.written = parts.prefix \o CasePattern(parts.core, t.match)
                           \o parts.suffix

\* C9: findClosestMatch does not return a word found at distance 2 when a
\* word was found at distance 1.
C9_ClosestFirst ==
  \A t \in LastTokens :
    (/\ t.path = "search"
     /\ \E k \in 1..Len(t.candidates) : t.candidates[k].distance = 1)
      => /\ \E k \in 1..Len(t.candidates) :
              /\ t.candidates[k].word = t.match
              /\ t.candidates[k].distance = 1
         /\ \A k \in 1..Len(t.candidates) :
              t.candidates[k].distance = 2 => t.candidates[k].word # t.match

\* Witness of C9: for "hellxo" the word "hello" was found at distance 1 and
\* "hell" at distance 2, and "hello" was returned.
C9_Witness ==
  \E t \in LastTokens :
    /\ t.lowerWord = Str("hellxo")
    /\ t.path = "search"
    /\ \E k \in 1..Len(t.candidates) :
         t.candidates[k].word = Str("hello") /\ t.candidates[k].distance = 1
    /\ \E k \in 1..Len(t.candidates) :
         t.candidates[k].word = Str("hell") /\ t.candidates[k].distance = 2
    /\ t.match = Str("hello")

\* C10: no call of correctSpelling ends in a run-time panic: every call
\* returns a string.
C10_Total ==
  /\ ~run.panic
  /\ ~Poisoned(run.result)
  /\ \A t \in LastTokens : ~t.panic /\ ~Poisoned(t.written)

\* Witness of C10: a call returned after it stripped a prefix and a suffix,
\* went through both rounds of edits and wrote a correction with an
\* upper-case first character.
C10_Witness ==
  /\ run.calls > 0
  /\ ~run.panic
  /\ \E t \in LastTokens :
       /\ t.prefix # <<>> /\ t.suffix # <<>>
       /\ t.path = "search"
       /\ \E k \in 1..Len(t.candidates) : t.candidates[k].distance = 2
       /\ t.corrected # t.match
       /\ run.result # run.text

wordNodes(t) == {n \in DOMAIN t.nodes : n # <<>> /\ t.nodes[n].isEnd}

\* C13: once loadDictionary has returned, whatever the file was (missing,
\* cut short, empty, fewer than 100 words), the dictionary holds at least
\* one word; so does it whenever a correction request was served.
C13_NeverEmpty ==
  (loaded \/ run.calls > 0) => wordNodes(dictionary) # {}

\* Witness of C13: no word came from the file (it was missing or empty),
\* loadDictionary returned, a request was served, and the dictionary holds
\* words.
C13_Witness ==
  /\ loaded
  /\ wordCount = 0
  /\ run.calls > 0
  /\ search(dictionary, Str("the"))
  /\ wordNodes(dictionary) # {}

\* C14: every candidate generated for a query carries the score computed
\* from the length of the query: its weight (1 without one), plus 100 when it
\* is as long as the query and minus 10 per byte of difference otherwise,
\* minus its length, plus 200 for a common word.
C14_ScoreFromQueryLength ==
  \A t \in LastTokens :
    t.path = "search"
      => \A k \in 1..Len(t.candidates) :
           t.candidates[k].score =
             getWordScore(t.candidates[k].word, Len(t.lowerWord))

\* C15: when findClosestMatch has candidates, it returns one whose distance
\* is the least of all candidates and whose score is the greatest among the
\* candidates at that distance.
C15_NearestThenBestScore ==
  \A t \in LastTokens :
    (t.path = "search" /\ ~t.panic /\ Len(t.candidates) > 0)
      => \E k \in 1..Len(t.candidates) :
           /\ t.candidates[k].word = t.match
           /\ \A j \in 1..Len(t.candidates) :
                /\ t.candidates[k].distance <= t.candidates[j].distance
                /\ t.candidates[j].distance = t.candidates[k].distance
                     => t.candidates[k].score >= t.candidates[j].score

\* Witness of C15: for "hell" the words "tell" and "help" were found at
\* distance 1, "tell" with the higher score, and a word with a still higher
\* score at distance 2; "tell" was returned.
C15_Witness ==
  \E t \in LastTokens :
    /\ t.lowerWord = Str("hell")
    /\ t.path = "search"
    /\ t.match = Str("tell")
    /\ \E i, j, k \in 1..Len(t.candidates) :
         /\ t.candidates[i].word = Str("tell") /\ t.candidates[i].distance = 1
         /\ t.candidates[j].word = Str("help") /\ t.candidates[j].distance = 1
         /\ t.candidates[j].score < t.candidates[i].score
         /\ t.candidates[k].distance = 2
         /\ t.candidates[k].score > t.candidates[i].score

\* The candidate of a list in enumeration order that no other candidate
\* beats on distance or, at equal distance, on score, and that comes first
\* among those.
firstBest(cands) ==
  cands[CHOOSE k \in 1..Len(cands) :
          /\ \A j \in 1..Len(cands) : ~lessClosest(cands[j], cands[k])
          /\ \A j \in 1..(k - 1) : lessClosest(cands[k], cands[j])]

\* The enumeration of the candidates among which the result is chosen: the
\* distance-1 candidates when there are some, the candidates of the second
\* pass otherwise.
enumeratedAfter(word, first) ==
  IF first # <<>> THEN first ELSE findCandidatesWithDistance(word, 2).cands

enumerated(word) == enumeratedAfter(word, distance1Candidates(word).cands)

\* C16: among the candidates that share the least distance and the best
\* score, findClosestMatch returns the one discovered first in the order
\* deletions, transpositions, substitutions, insertions, second-pass edits,
\* whatever toolchain the program was built with.
C16_FirstDiscoveredWins ==
  \A t \in LastTokens :
    (t.path = "search" /\ ~t.panic /\ Len(t.candidates) > 0)
      => t.match = firstBest(enumerated(t.lowerWord)).word

\* The strings one edit away from a sequence of characters: one character
\* deleted, two adjacent characters exchanged, one character replaced by a
\* different letter a-z, one letter a-z inserted at a position 0..n.
OneEditOf(rs) ==
  {SubSeq(rs, 1, k - 1) \o SubSeq(rs, k + 1, Len(rs)) : k \in 1..Len(rs)}
  \cup {SubSeq(rs, 1, k - 1) \o <<rs[k + 1], rs[k]>>
          \o SubSeq(rs, k + 2, Len(rs)) : k \in 1..(Len(rs) - 1)}
  \cup UNION {{[rs EXCEPT ![k] = c] : c \in (97..122) \ {rs[k]}} :
                k \in 1..Len(rs)}
  \cup UNION {{SubSeq(rs, 1, k) \o <<c>> \o SubSeq(rs, k + 1, Len(rs)) :
                 c \in 97..122} : k \in 0..Len(rs)}

\* The dictionary words one edit away from word.
OneEditWords(word) ==
  {EncodeRunes(e) : e \in OneEditOf(Runes(word))} \cap inserted

\* The words of a candidate list that carry the given distance.
Tagged(cands, distance) ==
  {cands[k].word : k \in {j \in 1..Len(cands) : cands[j].distance = distance}}

\* C17: for a query with at most MAX_CANDIDATES/2 distance-1 hits, the words
\* tagged with distance 1 are exactly the dictionary words that one
\* deletion, transposition, substitution or insertion makes of the query.
C17_DistanceOneExact ==
  \A t \in LastTokens :
    (/\ t.path = "search" /\ ~t.panic
     /\ Len(distance1Candidates(t.lowerWord).cands) <= MAX_CANDIDATES \div 2)
      => Tagged(t.candidates, 1) = OneEditWords(t.lowerWord)

\* At most k single-character edits (a deletion, an insertion, a
\* substitution, an exchange of two adjacent characters) turn the character
\* sequence a into b.
RECURSIVE WithinEdits(_, _, _)
WithinEdits(a, b, k) ==
  IF k < 0 THEN FALSE
  ELSE IF a = <<>> THEN Len(b) <= k
  ELSE IF b = <<>> THEN Len(a) <= k
  ELSE IF Head(a) = Head(b) THEN WithinEdits(Tail(a), Tail(b), k)
  ELSE \/ WithinEdits(Tail(a), b, k - 1)
       \/ WithinEdits(a, Tail(b), k - 1)
       \/ WithinEdits(Tail(a), Tail(b), k - 1)
       \/ /\ Len(a) >= 2 /\ Len(b) >= 2
          /\ a[1] = b[2] /\ a[2] = b[1]
          /\ WithinEdits(Tail(Tail(a)), Tail(Tail(b)), k - 1)

\* The candidate c carries its edit distance from the query.
TrueDistance(query, c) ==
  /\ c.distance \in {1, 2}
  /\ WithinEdits(Runes(query), Runes(c.word), c.distance)
  /\ ~WithinEdits(Runes(query), Runes(c.word), c.distance - 1)

\* C18: a candidate tagged 1 is one single-character edit away from the
\* query; a candidate tagged 2 is two edits away and not fewer.
C18_TrueDistance ==
  \A t \in LastTokens :
    (t.path = "search" /\ ~t.panic)
      => \A k \in 1..Len(t.candidates) :
           TrueDistance(t.lowerWord, t.candidates[k])

\* C19: every candidate is a word of the dictionary, and when a core is
\* replaced, the replacement in lower case is a dictionary word other than
\* the core in lower case.
C19_CandidatesAreWords ==
  \A t \in LastTokens :
    (t.path = "search" /\ ~t.panic)
      => /\ \A k \in 1..Len(t.candidates) : t.candidates[k].word \in inserted
         /\ t.match # t.lowerWord
              => /\ ToLower(t.corrected) \in inserted
                 /\ ToLower(t.corrected) # ToLower(TokenParts(t.word).core)

\* The number of candidates that the distance-1 generation yields for a
\* query.
yieldAtDistance1(word) == Len(findCandidatesWithDistance(word, 1).cands)

\* C20: a candidate of distance 2 is ranked for a query only if the
\* distance-1 generation yielded fewer than 3 candidates for it.
C20_SecondPassOnlyWhenFew ==
  \A t \in LastTokens :
    (t.path = "search" /\ ~t.panic /\ Tagged(t.candidates, 2) # {})
      => yieldAtDistance1(t.lowerWord) < 3

\* Witness of C20: "helllo" has three distance-1 hits (one per deleted l),
\* the second pass would find "hell", and no candidate of distance 2 is
\* ranked.
C20_Witness ==
  \E t \in LastTokens :
    /\ t.lowerWord = Str("helllo")
    /\ t.path = "search"
    /\ yieldAtDistance1(t.lowerWord) >= 3
    /\ Str("hell") \in Tagged(findCandidatesWithDistance(t.lowerWord, 2).cands, 2)
    /\ Tagged(t.candidates, 2) = {}
    /\ t.match = Str("hello")

\* C21: the candidate list that findClosestMatch ranks for a query never
\* holds more than MAX_CANDIDATES entries.
C21_HardCap ==
  \A t \in LastTokens :
    (t.path = "search" /\ ~t.panic) => Len(t.candidates) <= MAX_CANDIDATES

\* C22: no weight of the frequency table is negative, however long the
\* word source.
C22_NonNegativeWeights ==
  \A w \in DOMAIN WordFrequency : WordFrequency[w] >= 0

\* The word that the ranking of findClosestMatch picks from all the
\* distance-1 hits, and whether match has the best score of them.
pickedFromAll(hits) == SortSlice(hits, TRUE)[1].word

bestScored(hits, match) ==
  \E k \in 1..Len(hits) :
    /\ hits[k].word = match
    /\ \A j \in 1..Len(hits) : hits[k].score >= hits[j].score

sameAsUntruncated(hits, match) ==
  Len(hits) > MAX_CANDIDATES \div 2
    => (bestScored(hits, match) /\ match = pickedFromAll(hits))

\* C23: for a query with more than MAX_CANDIDATES/2 distance-1 hits,
\* findClosestMatch returns a word with the best score of all the hits, the
\* word that the ranking of the untruncated list gives.
C23_TruncationKeepsBest ==
  \A t \in LastTokens :
    (t.path = "search" /\ ~t.panic)
      => sameAsUntruncated(distance1Candidates(t.lowerWord).cands, t.match)

\* Witness of C23: "ther" has seven distance-1 hits, five are kept, and
\* "the", the best-scored of the seven, is returned.
C23_Witness ==
  \E t \in LastTokens :
    /\ t.lowerWord = Str("ther")
    /\ t.path = "search"
    /\ Len(distance1Candidates(t.lowerWord).cands) = 7
    /\ Len(t.candidates) = MAX_CANDIDATES \div 2
    /\ t.match = Str("the")

\* The number of entries of the log of the clipboard call that are the
\* given API call.
RECURSIVE Count(_, _)
Count(log, entry) ==
  IF log = <<>> THEN 0
  ELSE (IF Head(log) = entry THEN 1 ELSE 0) + Count(Tail(log), entry)

\* C24: in a call of getClipboardText or setClipboardText the clipboard is
\* opened with success at most once, after at most 3 attempts;
\* CloseClipboard is called at most once and never without a successful
\* open; and when the function is left, an open that succeeded has been
\* closed.
C24_OpenThenCloseOnce ==
  LET opened   == Count(clip.log, "OpenClipboard ok")
      failures == Count(clip.log, "OpenClipboard failed")
      closed   == Count(clip.log, "CloseClipboard")
  IN  /\ opened <= 1
      /\ opened + failures <= 3
      /\ closed <= opened
      /\ clip.pc \in {"returned", "panicked"} => closed = opened

\* Witness of C24: setClipboardText failed twice to open the clipboard,
\* opened it at the third attempt, failed in SetClipboardData, freed the
\* memory, closed the clipboard once and returned.
C24_Witness ==
  /\ clip.fn = "setClipboardText"
  /\ clip.pc = "returned"
  /\ Count(clip.log, "OpenClipboard failed") = 2
  /\ Count(clip.log, "OpenClipboard ok") = 1
  /\ Count(clip.log, "SetClipboardData failed") = 1
  /\ Count(clip.log, "CloseClipboard") = 1
  /\ clip.log[Len(clip.log)] = "CloseClipboard"

\* A trigger is inside checkSpelling.
Checking == \E t \in Triggers : inFlight[t].active

\* C11: build-then-freeze.  The trie and the frequency table change only
\* before loadDictionary has returned, the listeners call checkSpelling
\* only after it, and no step of a checkSpelling call, however the calls
\* of the two triggers interleave, changes the trie or the table.
C11_BuildThenFreeze ==
  [][/\ (loaded => loaded')
     /\ (Checking => loaded) /\ (Checking' => loaded')
     /\ (loaded \/ Checking
           => dictionary' = dictionary /\ WordFrequency' = WordFrequency)
    ]_vars

\* Witness of C11: the calls of the two triggers overlap, on a loaded
\* dictionary that holds words of the file.
C11_Witness ==
  /\ inFlight["hotkey"].active /\ inFlight["menu"].active
  /\ wordCount > 0
  /\ loaded

====
